---- MODULE Spec2Model ----
(***************************************************************************)
(* Model of pinnstorch/models/net/neural_net.py: the construction and the  *)
(* forward pass of FCN, NetHFM and ParallelNet.                            *)
(*                                                                         *)
(* A tensor of shape [batch, w] is modelled with batch = 1 as a sequence   *)
(* of its w columns.  Input values, bounds and statistics are small        *)
(* integers; the normalised values are exact rationals [n, d] in lowest    *)
(* terms (d = 0 encodes the IEEE results of a division by zero).  The      *)
(* trainable parameters are not modelled by value: the result of the       *)
(* affine stack is any tensor of the width the stack produces.             *)
(***************************************************************************)
EXTENDS Integers, Sequences, FiniteSets, TLC

VARIABLES net, args, call

vars == <<net, args, call>>

----------------------------------------------------------------------------
(* Bounds of the model *)

MaxLayers == 4

MaxVal == 2

MaxNames == 3

----------------------------------------------------------------------------
(* Arithmetic helpers *)

Abs(x) == IF x < 0 THEN -x ELSE x

Sgn(x) == IF x < 0 THEN -1 ELSE IF x > 0 THEN 1 ELSE 0

RECURSIVE GCD(_, _)
GCD(a, b) == IF b = 0 THEN a ELSE GCD(b, a % b)

\* n / d as a float division: a rational in lowest terms with a positive
\* denominator; x/0 is +inf, -inf or nan, encoded [n |-> sign, d |-> 0].
Frac(n, d) ==
    IF d = 0 THEN [n |-> Sgn(n), d |-> 0]
    ELSE LET g == GCD(Abs(n), Abs(d))
             s == IF d < 0 THEN -1 ELSE 1
         IN  [n |-> s * (n \div g), d |-> s * (d \div g)]

\* Rescale without the factor 2.0: (z - lb) / (ub - lb) - 1.0
RescaleNoFactor(z, lb, ub) ==
    LET q == Frac(z - lb, ub - lb)
    IN  IF q.d = 0 THEN q ELSE Frac(q.n - q.d, q.d)

\* 2.0 * (z - lb) / (ub - lb) - 1.0 for one element
Rescale(z, lb, ub) ==
    LET q == Frac(2 * (z - lb), ub - lb)
    IN  IF q.d = 0 THEN q ELSE Frac(q.n - q.d, q.d)

\* (H - mean) / std for one element
Standardize(h, mean, std) == Frac(h - mean, std)

----------------------------------------------------------------------------
(* Tensor helpers *)

Range(s) == {s[i] : i \in 1..Len(s)}

Front(s) == SubSeq(s, 1, Len(s) - 1)

\* Width of the broadcast of two widths along the column axis, -1 when the
\* two shapes cannot be broadcast together.
BShape(n, m) ==
    IF n < 0 \/ m < 0 THEN -1
    ELSE IF n = m THEN n
    ELSE IF n = 1 THEN m
    ELSE IF m = 1 THEN n
    ELSE -1

\* Element i of a tensor broadcast to a wider shape
At(s, i) == IF Len(s) = 1 THEN s[1] ELSE s[i]

Failed == [ok |-> FALSE, val |-> <<>>]

\* 2.0 * (z - lb) / (ub - lb) - 1.0 on whole tensors
Normalize(z, lb, ub) ==
    LET w == BShape(BShape(Len(z), Len(lb)), BShape(Len(ub), Len(lb)))
    IN  IF w < 0 THEN Failed
        ELSE [ok |-> TRUE,
              val |-> [i \in 1..w |-> Rescale(At(z, i), At(lb, i), At(ub, i))]]

\* (H - X_mean) / X_std on whole tensors
StandardizeAll(H, mean, std) ==
    LET w == BShape(BShape(Len(H), Len(mean)), Len(std))
    IN  IF w < 0 THEN Failed
        ELSE [ok |-> TRUE,
              val |-> [i \in 1..w |-> Standardize(At(H, i), At(mean, i), At(std, i))]]

----------------------------------------------------------------------------
(* Construction of the affine stacks *)

Linear(a, b) == [kind |-> "Linear", in |-> a, out |-> b]

Activation(k) == [kind |-> k, in |-> 0, out |-> 0]

\* FCNActivation with sine, not hyperbolic tangent, as the default branch
FCNActivationDefaultSin(act_function) ==
    IF act_function = "tanh" THEN Activation("Tanh") ELSE Activation("Sin")

\* FCN: if act_function == "sin": Sin() else: nn.Tanh()
FCNActivation(act_function) ==
    IF act_function = "sin" THEN Activation("Sin") ELSE Activation("Tanh")

\* ParallelActivation without the "sigmoid" branch
ParallelActivationNoSigmoid(act_function) ==
    IF act_function = "sin" THEN Activation("Sin") ELSE Activation("Tanh")

\* ParallelNet: "sin" -> Sin(), "sigmoid" -> nn.Sigmoid(), else nn.Tanh()
ParallelActivation(act_function) ==
    IF act_function = "sin" THEN Activation("Sin")
    ELSE IF act_function = "sigmoid" THEN Activation("Sigmoid")
    ELSE Activation("Tanh")

\* for i in range(1, len(layers) - 2): Linear(layers[i], layers[i + 1]) and
\* an activation; i is the 0-based index of the code.
RECURSIVE HiddenStack(_, _, _)
HiddenStack(layers, act, i) ==
    IF i >= Len(layers) - 2 THEN <<>>
    ELSE <<Linear(layers[i + 1], layers[i + 2]), act>>
         \o HiddenStack(layers, act, i + 1)

\* input layer, activation, hidden layers with activations, output layer
\* Linear(layers[-2], layers[-1])
Stack(layers, act) ==
    <<Linear(layers[1], layers[2]), act>>
    \o HiddenStack(layers, act, 1)
    \o <<Linear(layers[Len(layers) - 1], layers[Len(layers)])>>

FCN_initalize_net(layers, act_function) ==
    Stack(layers, FCNActivation(act_function))

ParallelNet_initialize_net(layers, act_function) ==
    Stack(layers, ParallelActivation(act_function))

\* NetHFM: one (W, b, g) per i in range(0, num_layers - 1); W has shape
\* [layers[i], layers[i + 1]], b and g have shape [1, layers[i + 1]].
NetHFM_initalize_net(layers, num_layers) ==
    [i \in 1..(num_layers - 1) |->
        [W |-> <<layers[i], layers[i + 1]>>, b |-> layers[i + 1], g |-> layers[i + 1]]]

\* nn.Sequential applied to a tensor of width w: the width of the result,
\* -1 when a Linear layer meets a tensor of another width than its in_features.
RECURSIVE RunSequential(_, _, _)
RunSequential(model, i, w) ==
    IF i > Len(model) THEN w
    ELSE IF model[i].kind = "Linear"
         THEN IF model[i].in = w THEN RunSequential(model, i + 1, model[i].out)
              ELSE -1
         ELSE RunSequential(model, i + 1, w)

----------------------------------------------------------------------------
(* The objects *)

NoNet == [cls |-> "none"]

NoArgs == [cls |-> "none"]

NoCall == [cls |-> "none", ok |-> FALSE]

Init ==
    /\ net = NoNet
    /\ args = NoArgs
    /\ call = NoCall

FCN_init(layers, lb, ub, output_names, act_function, discrete) ==
    /\ net.cls = "none"
    /\ net' = [cls |-> "FCN",
               model |-> FCN_initalize_net(layers, act_function),
               lb |-> lb, ub |-> ub,
               output_names |-> output_names,
               discrete |-> discrete]
    /\ args' = [cls |-> "FCN", layers |-> layers, act_function |-> act_function]
    /\ UNCHANGED call

NetHFM_init(mean, std, layers, output_names) ==
    /\ net.cls = "none"
    /\ net' = [cls |-> "NetHFM",
               num_layers |-> Len(layers),
               output_names |-> output_names,
               X_mean |-> mean, X_std |-> std,
               params |-> NetHFM_initalize_net(layers, Len(layers))]
    /\ args' = [cls |-> "NetHFM", layers |-> layers]
    /\ UNCHANGED call

ParallelNet_init(layers1, layers2, lb, ub, output_names, act_function1, act_function2) ==
    /\ net.cls = "none"
    /\ net' = [cls |-> "ParallelNet",
               model1 |-> ParallelNet_initialize_net(layers1, act_function1),
               model2 |-> ParallelNet_initialize_net(layers2, act_function2),
               lb |-> lb, ub |-> ub,
               output_names |-> output_names]
    /\ args' = [cls |-> "ParallelNet",
                layers1 |-> layers1, layers2 |-> layers2,
                act_function1 |-> act_function1, act_function2 |-> act_function2]
    /\ UNCHANGED call

----------------------------------------------------------------------------
(* Forward passes *)

\* The float32 argument at and below which torch.exp rounds to 0.0, and the
\* one at and above which it overflows to +inf (e^-104 < 2^-150, e^89 > FLT_MAX).
ExpUnderflow == -104

ExpOverflow == 89

\* A float that is the integer v.  The elements of ParallelNet's output are
\* floats by class: an integer, e^x for an x whose exponential is a positive
\* finite float32, or +inf.
Num(v) == [k |-> "num", v |-> v]

\* torch.exp on a float32 holding the integer x
Exp32(x) ==
    IF x <= ExpUnderflow THEN Num(0)
    ELSE IF x >= ExpOverflow THEN [k |-> "inf", v |-> 1]
    ELSE IF x = 0 THEN Num(1)
    ELSE [k |-> "exp", v |-> x]

IsPositive(e) == e.k \in {"exp", "inf"} \/ (e.k = "num" /\ e.v > 0)

\* Slice with the index clamped to the last column instead of an empty slice
SliceClampIndex(z, i) ==
    IF i + 1 <= Len(z) THEN <<z[i + 1]>> ELSE <<z[Len(z)]>>

\* z[:, i : i + 1] with the 0-based i of the code: a slice past the last
\* column is empty.
Slice(z, i) == IF i + 1 <= Len(z) THEN <<z[i + 1]>> ELSE <<>>

EmptyDict == [n \in {} |-> <<>>]

\* DictComp that maps every name to the whole tensor in either mode
RECURSIVE DictCompWhole(_, _, _, _)
DictCompWhole(names, z, whole, n) ==
    IF n = 0 THEN EmptyDict
    ELSE (names[n] :> z) @@ DictCompWhole(names, z, whole, n - 1)

\* {name: z for i, name in enumerate(names)} when whole, else
\* {name: z[:, i : i + 1] for i, name in enumerate(names)}, built over the
\* first n names: a name that occurs again takes the later value.
RECURSIVE DictComp(_, _, _, _)
DictComp(names, z, whole, n) ==
    IF n = 0 THEN EmptyDict
    ELSE (names[n] :> (IF whole THEN z ELSE Slice(z, n - 1)))
         @@ DictComp(names, z, whole, n - 1)

\* torch.cat of the spatial tensors and time: by len(spatial) 1, 2, else 3
WithTime(spatial, time) ==
    IF Len(spatial) = 1 THEN <<spatial[1], time>>
    ELSE IF Len(spatial) = 2 THEN <<spatial[1], spatial[2], time>>
    ELSE <<spatial[1], spatial[2], spatial[3], time>>

\* torch.cat of the spatial tensors alone: by len(spatial) 2, 3, else the first
SpatialOnly(spatial) ==
    IF Len(spatial) = 2 THEN <<spatial[1], spatial[2]>>
    ELSE IF Len(spatial) = 3 THEN <<spatial[1], spatial[2], spatial[3]>>
    ELSE <<spatial[1]>>

\* FCN.forward: the tensor that is normalised
FCNInput(spatial, time, discrete) ==
    IF discrete THEN SpatialOnly(spatial) ELSE WithTime(spatial, time)

\* FCNBounds dropping the first entry, b[1:], instead of the last
FCNBoundsDropFirst(b, discrete) == IF discrete THEN Tail(b) ELSE b

\* FCN.forward: self.lb[:-1] / self.ub[:-1] in discrete mode, else the buffer
FCNBounds(b, discrete) == IF discrete THEN Front(b) ELSE b

FCN_forward(spatial, time, R) ==
    /\ net.cls = "FCN"
    /\ call.cls = "none"
    /\ LET z0 == FCNInput(spatial, time, net.discrete)
           nz == Normalize(z0, FCNBounds(net.lb, net.discrete),
                               FCNBounds(net.ub, net.discrete))
           w  == IF nz.ok THEN RunSequential(net.model, 1, Len(nz.val)) ELSE -1
       IN  IF w < 0
           THEN call' = [cls |-> "FCN", ok |-> FALSE, spatial |-> spatial,
                         time |-> time, zin |-> nz.val, z |-> <<>>,
                         out |-> EmptyDict]
           ELSE \E raw \in [1..w -> R] :
                call' = [cls |-> "FCN", ok |-> TRUE, spatial |-> spatial,
                         time |-> time, zin |-> nz.val, z |-> raw,
                         out |-> DictComp(net.output_names, raw, net.discrete,
                                          Len(net.output_names))]
    /\ UNCHANGED <<net, args>>

\* NetHFMActivates off by one: the activation after the last transform too
NetHFMActivatesAll(i, num_layers) == i < num_layers - 1

\* NetHFM.forward: if i < self.num_layers - 2 (i is the 0-based index)
NetHFMActivates(i, num_layers) == i < num_layers - 2

\* NetHFM.forward: the loop over zip(weights, biases, gammas) from the
\* 0-based index i on, on a tensor of width w: the width of the result (-1
\* when the matmul meets another width than W's rows) and the operations
\* applied, in order.
RECURSIVE NetHFMLoop(_, _, _, _, _)
NetHFMLoop(params, num_layers, i, w, ops) ==
    IF i >= Len(params) THEN [w |-> w, ops |-> ops]
    ELSE IF params[i + 1].W[1] # w THEN [w |-> -1, ops |-> ops]
    ELSE NetHFMLoop(params, num_layers, i + 1, params[i + 1].W[2],
                    IF NetHFMActivates(i, num_layers)
                    THEN ops \o <<"affine", "swish">>
                    ELSE ops \o <<"affine">>)

NetHFM_forward(spatial, time, R) ==
    /\ net.cls = "NetHFM"
    /\ call.cls = "none"
    /\ LET H0 == WithTime(spatial, time)
           nz == StandardizeAll(H0, net.X_mean, net.X_std)
           r  == IF nz.ok
                 THEN NetHFMLoop(net.params, net.num_layers, 0, Len(nz.val), <<>>)
                 ELSE [w |-> -1, ops |-> <<>>]
       IN  IF r.w < 0
           THEN call' = [cls |-> "NetHFM", ok |-> FALSE, spatial |-> spatial,
                         time |-> time, zin |-> nz.val, z |-> <<>>,
                         ops |-> r.ops, out |-> EmptyDict]
           ELSE \E raw \in [1..r.w -> R] :
                call' = [cls |-> "NetHFM", ok |-> TRUE, spatial |-> spatial,
                         time |-> time, zin |-> nz.val, z |-> raw,
                         ops |-> r.ops,
                         out |-> DictComp(net.output_names, raw, FALSE,
                                          Len(net.output_names))]
    /\ UNCHANGED <<net, args>>

\* ParallelBranch2Bounds with one bound per spatial column, b[:-1]
ParallelBranch2BoundsPerColumn(b) == Front(b)

\* ParallelNet.forward: self.lb[0] / self.ub[0], a scalar
ParallelBranch2Bounds(b) == <<b[1]>>

ParallelNet_forward(spatial, time, R) ==
    /\ net.cls = "ParallelNet"
    /\ call.cls = "none"
    /\ LET n1 == Normalize(WithTime(spatial, time), net.lb, net.ub)
           n2 == Normalize(SpatialOnly(spatial), ParallelBranch2Bounds(net.lb),
                           ParallelBranch2Bounds(net.ub))
           w1 == IF n1.ok THEN RunSequential(net.model1, 1, Len(n1.val)) ELSE -1
           w2 == IF n2.ok THEN RunSequential(net.model2, 1, Len(n2.val)) ELSE -1
       IN  IF w1 < 0 \/ w2 < 0
           THEN call' = [cls |-> "ParallelNet", ok |-> FALSE, spatial |-> spatial,
                         time |-> time, zin |-> n1.val, zin2 |-> n2.val,
                         z1 |-> <<>>, z2 |-> <<>>, z |-> <<>>, out |-> EmptyDict]
           ELSE \E r1 \in [1..w1 -> R], r2 \in [1..w2 -> R] :
                LET z == [i \in 1..w1 |-> Num(r1[i])]
                         \o [i \in 1..w2 |-> Exp32(r2[i])]
                IN  call' = [cls |-> "ParallelNet", ok |-> TRUE,
                             spatial |-> spatial, time |-> time,
                             zin |-> n1.val, zin2 |-> n2.val,
                             z1 |-> r1, z2 |-> r2, z |-> z,
                             out |-> DictComp(net.output_names, z, FALSE,
                                              Len(net.output_names))]
    /\ UNCHANGED <<net, args>>

\* return outputs_dict: the caller takes the mapping; the network is unchanged
\* and ready for the next call.
Return ==
    /\ call.cls # "none"
    /\ call' = NoCall
    /\ UNCHANGED <<net, args>>

----------------------------------------------------------------------------
(* Inputs *)

Acts == {"sin", "tanh", "sigmoid", "bogus", "relu"}

Recognized == {"sin", "tanh", "sigmoid"}

Arities == {1, 2, 3}

Vals == 0..MaxVal

LbVals == {0, 1}

UbVals == {1, 2}

BoundLens == {2, 3, 4}

OutWidths == {1, 2}

NameIds == {"u", "v", "w"}

NameSeqs == UNION {[1..n -> NameIds] : n \in 1..MaxNames}

RawVals == {ExpUnderflow, -1, 0, ExpOverflow}

\* Every layer spec of 2..MaxLayers widths
LayerSpecs == UNION {[1..n -> {1, 2}] : n \in 2..MaxLayers}

\* The layer spec of n widths from a to b through hidden layers of width 2
Chain(a, n, b) == [i \in 1..n |-> IF i = 1 THEN a ELSE IF i = n THEN b ELSE 2]

Spatials == UNION {[1..k -> Vals] : k \in Arities}

----------------------------------------------------------------------------
(* Specifications *)

\* Construction over every layer spec and activation identifier
NextBuild ==
    \/ /\ net.cls = "none"
       /\ \E layers \in LayerSpecs, act \in Acts, discrete \in BOOLEAN :
             FCN_init(layers, <<0, 0>>, <<1, 1>>, <<"u">>, act, discrete)
    \/ /\ net.cls = "none"
       /\ \E layers1 \in LayerSpecs, layers2 \in LayerSpecs, act1 \in Acts, act2 \in Acts :
             ParallelNet_init(layers1, layers2, <<0, 0>>, <<1, 1>>, <<"u", "v">>, act1, act2)

SpecBuild == Init /\ [][NextBuild]_vars

\* Forward passes over every arity, input value and bounds vector
NextIn ==
    \/ /\ net.cls = "none"
       /\ \E D \in BoundLens, discrete \in BOOLEAN :
             \E lb \in [1..D -> LbVals], ub \in [1..D -> UbVals] :
                FCN_init(Chain(IF discrete THEN D - 1 ELSE D, 3, 1), lb, ub,
                         <<"u">>, "tanh", discrete)
    \/ /\ net.cls = "none"
       /\ \E D \in BoundLens :
             \E lb \in [1..D -> LbVals], ub \in [1..D -> UbVals] :
                ParallelNet_init(Chain(D, 3, 1), Chain(D - 1, 3, 1), lb, ub,
                                 <<"u", "v">>, "sin", "sin")
    \/ /\ net.cls = "FCN" /\ call.cls = "none"
       /\ \E spatial \in Spatials, time \in Vals : FCN_forward(spatial, time, {0})
    \/ /\ net.cls = "ParallelNet" /\ call.cls = "none"
       /\ \E spatial \in Spatials, time \in Vals : ParallelNet_forward(spatial, time, {0})
    \/ Return

SpecIn == Init /\ [][NextIn]_vars

\* Forward passes over every sequence of output names, output width and
\* value of the final tensor
NextOut ==
    \/ /\ net.cls = "none"
       /\ \E n \in 2..MaxLayers, b \in OutWidths, names \in NameSeqs, discrete \in BOOLEAN :
             FCN_init(Chain(IF discrete THEN 1 ELSE 2, n, b), <<0, 0>>, <<1, 1>>,
                      names, "sin", discrete)
    \/ /\ net.cls = "none"
       /\ \E n \in 2..MaxLayers, b \in OutWidths, names \in NameSeqs :
             NetHFM_init(<<0, 0>>, <<1, 1>>, Chain(2, n, b), names)
    \/ /\ net.cls = "none"
       /\ \E w1 \in OutWidths, w2 \in OutWidths, names \in NameSeqs :
             ParallelNet_init(Chain(2, 3, w1), Chain(1, 3, w2), <<0, 0>>, <<1, 1>>,
                              names, "sin", "tanh")
    \/ /\ net.cls = "FCN" /\ call.cls = "none"
       /\ \E x \in 0..1 : FCN_forward(<<x>>, 0, RawVals)
    \/ /\ net.cls = "NetHFM" /\ call.cls = "none"
       /\ \E x \in 0..1 : NetHFM_forward(<<x>>, 0, RawVals)
    \/ /\ net.cls = "ParallelNet" /\ call.cls = "none"
       /\ \E x \in 0..1 : ParallelNet_forward(<<x>>, 0, RawVals)
    \/ Return

SpecOut == Init /\ [][NextOut]_vars

----------------------------------------------------------------------------
(* Properties of the construction, under SpecBuild *)

NumLinear(model) == Cardinality({i \in 1..Len(model) : model[i].kind = "Linear"})

\* The stack alternates affine layer and activation, ends with an affine
\* layer, and every activation position holds the nonlinearity k.
AllActivations(model, k) ==
    /\ Len(model) >= 3
    /\ Len(model) % 2 = 1
    /\ \A i \in 1..Len(model) :
          IF i % 2 = 1 THEN model[i].kind = "Linear" ELSE model[i].kind = k

\* C3: for every layer spec of length >= 2, length exactly 2 included, the
\* network built by FCN.initalize_net and by ParallelNet.initialize_net
\* holds exactly len(layers) - 1 affine layers.
C3_AffineCount ==
    /\ net.cls = "FCN" => NumLinear(net.model) = Len(args.layers) - 1
    /\ net.cls = "ParallelNet" =>
          /\ NumLinear(net.model1) = Len(args.layers1) - 1
          /\ NumLinear(net.model2) = Len(args.layers2) - 1

\* C4 as stated: "sigmoid" places a sigmoid at every activation position of
\* an FCN and of a ParallelNet branch, as "sin" places sine and "tanh"
\* hyperbolic tangent.
C4_SigmoidSelectable ==
    LET Placed(act, model) ==
            /\ act = "sigmoid" => AllActivations(model, "Sigmoid")
            /\ act = "sin" => AllActivations(model, "Sin")
            /\ act = "tanh" => AllActivations(model, "Tanh")
    IN  /\ net.cls = "FCN" => Placed(args.act_function, net.model)
        /\ net.cls = "ParallelNet" =>
              /\ Placed(args.act_function1, net.model1)
              /\ Placed(args.act_function2, net.model2)

\* C4 as amended: "sigmoid" places a sigmoid at every activation position of
\* a ParallelNet branch only; an FCN built with "sigmoid" holds hyperbolic
\* tangent at every activation position.  "sin" places sine and "tanh"
\* hyperbolic tangent in both.
C4_SigmoidOnlyInParallelNet ==
    /\ net.cls = "FCN" =>
          /\ args.act_function = "sigmoid" => AllActivations(net.model, "Tanh")
          /\ args.act_function = "sin" => AllActivations(net.model, "Sin")
          /\ args.act_function = "tanh" => AllActivations(net.model, "Tanh")
    /\ net.cls = "ParallelNet" =>
          /\ args.act_function1 = "sigmoid" => AllActivations(net.model1, "Sigmoid")
          /\ args.act_function1 = "sin" => AllActivations(net.model1, "Sin")
          /\ args.act_function1 = "tanh" => AllActivations(net.model1, "Tanh")
          /\ args.act_function2 = "sigmoid" => AllActivations(net.model2, "Sigmoid")
          /\ args.act_function2 = "sin" => AllActivations(net.model2, "Sin")
          /\ args.act_function2 = "tanh" => AllActivations(net.model2, "Tanh")

C4_Witness ==
    /\ net.cls = "ParallelNet"
    /\ args.act_function1 = "sigmoid"
    /\ args.act_function2 = "tanh"
    /\ Len(args.layers1) = 4

\* C5: an FCN or a ParallelNet branch built with an identifier outside the
\* recognized set is built (no error) with the same sequence of layers as
\* one built with "tanh": hyperbolic tangent at every activation position,
\* affine layers identical in number and shape.
C5_UnknownFallsBackToTanh ==
    /\ (net.cls = "FCN" /\ args.act_function \notin Recognized) =>
          /\ net.model = FCN_initalize_net(args.layers, "tanh")
          /\ AllActivations(net.model, "Tanh")
    /\ net.cls = "ParallelNet" =>
          /\ args.act_function1 \notin Recognized =>
                /\ net.model1 = ParallelNet_initialize_net(args.layers1, "tanh")
                /\ AllActivations(net.model1, "Tanh")
          /\ args.act_function2 \notin Recognized =>
                /\ net.model2 = ParallelNet_initialize_net(args.layers2, "tanh")
                /\ AllActivations(net.model2, "Tanh")

C5_Witness ==
    /\ net.cls = "FCN"
    /\ args.act_function = "bogus"
    /\ Len(args.layers) = 4
    /\ net.model[2].kind = "Tanh"

----------------------------------------------------------------------------
(* Properties of the output mapping, under SpecOut *)

IsUnique(names) ==
    \A i \in 1..Len(names), j \in 1..Len(names) : names[i] = names[j] => i = j

\* The width of the final layer of the layer spec
FinalWidth(layers) == layers[Len(layers)]

\* C1: FCN in continuous mode and NetHFM, output_names unique and as many
\* as the final layer is wide: forward returns len(output_names) entries
\* and the i-th name maps to column i of the final tensor, one column wide.
\* FCN in discrete mode: the same keys, every name maps to the whole final
\* tensor.
C1_OutputMapping ==
    (call.ok /\ call.cls \in {"FCN", "NetHFM"}) =>
        LET names == net.output_names
        IN  IF call.cls = "FCN" /\ net.discrete
            THEN /\ DOMAIN call.out = Range(names)
                 /\ \A n \in Range(names) : call.out[n] = call.z
            ELSE (IsUnique(names) /\ Len(names) = FinalWidth(args.layers)) =>
                    /\ DOMAIN call.out = Range(names)
                    /\ Cardinality(DOMAIN call.out) = Len(names)
                    /\ \A i \in 1..Len(names) :
                          /\ Len(call.out[names[i]]) = 1
                          /\ call.out[names[i]][1] = call.z[i]

C1_Witness ==
    /\ call.ok
    /\ call.cls = "FCN"
    /\ ~net.discrete
    /\ net.output_names = <<"v", "u">>
    /\ Len(call.z) = 2
    /\ call.z[1] # call.z[2]
    /\ call.out["v"] = <<call.z[1]>>

\* C2: ParallelNet.forward with branch widths w1 and w2 (names unique): the
\* i-th name maps to the unchanged branch-1 column i when i < w1 and to the
\* exponential of branch-2 column i - w1 when w1 <= i < w1 + w2, and every
\* element that comes from branch 2 is strictly positive.
C2_Branch2StrictlyPositive ==
    (call.cls = "ParallelNet" /\ call.ok /\ IsUnique(net.output_names)) =>
        LET names == net.output_names
            w1 == Len(call.z1)
            w2 == Len(call.z2)
        IN  \A i \in 1..Len(names) :
               /\ i <= w1 => call.out[names[i]] = <<Num(call.z1[i])>>
               /\ (w1 < i /\ i <= w1 + w2) =>
                     /\ call.out[names[i]] = <<Exp32(call.z2[i - w1])>>
                     /\ IsPositive(call.out[names[i]][1])

\* C6 as stated: FCN in continuous mode with len(output_names) other than
\* the final layer width: forward fails instead of returning a mapping.
C6_MismatchFails ==
    (call.cls = "FCN" /\ ~net.discrete
        /\ Len(net.output_names) # FinalWidth(args.layers)) => ~call.ok

\* The input of the call fits the bounds and the stack the layer spec built
FCNShapesFit ==
    /\ Len(call.spatial) + 1 = Len(net.lb)
    /\ Len(net.ub) = Len(net.lb)
    /\ RunSequential(net.model, 1, Len(net.lb)) = FinalWidth(args.layers)

\* C6 as amended: FCN in continuous mode with len(output_names) other than
\* the final layer width: forward raises nothing and returns a mapping over
\* the names; the i-th name (its last occurrence) maps to column i when
\* there is one and to an empty, zero-column tensor when i is past the
\* final layer width; columns past len(output_names) are left out.
C6_MismatchReturnsMapping ==
    (call.cls = "FCN" /\ ~net.discrete /\ FCNShapesFit
        /\ Len(net.output_names) # FinalWidth(args.layers)) =>
        LET names == net.output_names
        IN  /\ call.ok
            /\ DOMAIN call.out = Range(names)
            /\ \A i \in 1..Len(names) :
                  (\A j \in (i + 1)..Len(names) : names[j] # names[i]) =>
                     IF i <= FinalWidth(args.layers)
                     THEN call.out[names[i]] = <<call.z[i]>>
                     ELSE call.out[names[i]] = <<>>

C6_Witness ==
    /\ call.cls = "FCN"
    /\ ~net.discrete
    /\ call.ok
    /\ FinalWidth(args.layers) = 1
    /\ net.output_names = <<"u", "v">>
    /\ call.out["u"] = <<call.z[1]>>
    /\ call.out["v"] = <<>>

\* C10: a NetHFM built from a layer spec of length n >= 2 applies exactly
\* n - 1 weight-normalised affine transforms in order, with the activation
\* H * sigmoid(H) after the transform of index i iff i < n - 2: the last
\* transform's output is returned without activation.
C10_NetHFMTransforms ==
    (call.cls = "NetHFM" /\ call.ok) =>
        LET n == Len(args.layers)
            ops == call.ops
        IN  /\ Len(net.params) = n - 1
            /\ Cardinality({k \in 1..Len(ops) : ops[k] = "affine"}) = n - 1
            /\ Cardinality({k \in 1..Len(ops) : ops[k] = "swish"}) = n - 2
            /\ \A i \in 0..(n - 2) :
                  /\ ops[2 * i + 1] = "affine"
                  /\ i < n - 2 => ops[2 * i + 2] = "swish"
            /\ ops[Len(ops)] = "affine"

C10_Witness ==
    /\ call.cls = "NetHFM"
    /\ call.ok
    /\ Len(args.layers) = 4
    /\ call.ops = <<"affine", "swish", "affine", "swish", "affine">>

----------------------------------------------------------------------------
(* Properties of the input composition and rescaling, under SpecIn *)

MinusOne == [n |-> -1, d |-> 1]

PlusOne == [n |-> 1, d |-> 1]

\* C7: FCN in discrete mode, arity 1, 2 or 3: the network input is the
\* spatial tensors alone, column by column (time does not occur in it),
\* rescaled with the bounds without their last entry; in continuous mode
\* time is the last column and the whole bounds are used.
C7_FCNInput ==
    (call.cls = "FCN" /\ call.ok) =>
        LET k == Len(call.spatial)
            D == Len(net.lb)
        IN  IF net.discrete
            THEN /\ Len(call.zin) = D - 1
                 /\ k = D - 1 \/ k = 1
                 /\ \A i \in 1..(D - 1) :
                       call.zin[i] = Rescale(call.spatial[IF k = 1 THEN 1 ELSE i],
                                             net.lb[i], net.ub[i])
            ELSE /\ Len(call.zin) = k + 1
                 /\ D = k + 1
                 /\ \A i \in 1..k :
                       call.zin[i] = Rescale(call.spatial[i], net.lb[i], net.ub[i])
                 /\ call.zin[k + 1] = Rescale(call.time, net.lb[k + 1], net.ub[k + 1])

C7_Witness ==
    /\ call.cls = "FCN"
    /\ call.ok
    /\ net.discrete
    /\ Len(call.spatial) = 3
    /\ call.time = 2
    /\ net.lb = <<0, 1, 1, 0>>
    /\ Len(call.zin) = 3

\* C8: ParallelNet.forward, arity 1, 2 or 3: the branch-2 input is the
\* spatial tensors alone, every column rescaled with the scalars lb[0] and
\* ub[0]; the branch-1 input is the spatial tensors followed by time,
\* column i rescaled with lb[i] and ub[i].
C8_ParallelInputs ==
    (call.cls = "ParallelNet" /\ call.ok) =>
        LET k == Len(call.spatial)
        IN  /\ Len(call.zin2) = k
            /\ \A i \in 1..k :
                  call.zin2[i] = Rescale(call.spatial[i], net.lb[1], net.ub[1])
            /\ Len(call.zin) = k + 1
            /\ Len(net.lb) = k + 1
            /\ \A i \in 1..k :
                  call.zin[i] = Rescale(call.spatial[i], net.lb[i], net.ub[i])
            /\ call.zin[k + 1] = Rescale(call.time, net.lb[k + 1], net.ub[k + 1])

C8_Witness ==
    /\ call.cls = "ParallelNet"
    /\ call.ok
    /\ Len(call.spatial) = 3
    /\ net.lb[2] # net.lb[1]
    /\ net.ub[3] # net.ub[1]
    /\ call.zin2[2] # call.zin[2]

\* The call of a continuous FCN or of a ParallelNet whose bounds have
\* ub[i] > lb[i] in every entry
RescaledCall ==
    /\ call.ok
    /\ \/ call.cls = "FCN" /\ ~net.discrete
       \/ call.cls = "ParallelNet"
    /\ Len(net.lb) = Len(call.spatial) + 1
    /\ \A i \in 1..Len(net.lb) : net.ub[i] > net.lb[i]

\* Every column of the input equals its own bound b[i]
InputAt(b) ==
    /\ \A i \in 1..Len(call.spatial) : call.spatial[i] = b[i]
    /\ call.time = b[Len(call.spatial) + 1]

\* C9 as stated: with ub[i] > lb[i], an input whose every column equals its
\* own lower bound is normalised to -1 in every column, one at its upper
\* bounds to +1 in every column, for every normalised network input,
\* ParallelNet's branch-2 input at every arity included.
C9_EndpointsEveryInput ==
    RescaledCall =>
        /\ InputAt(net.lb) =>
              /\ \A i \in 1..Len(call.zin) : call.zin[i] = MinusOne
              /\ call.cls = "ParallelNet" =>
                    \A i \in 1..Len(call.zin2) : call.zin2[i] = MinusOne
        /\ InputAt(net.ub) =>
              /\ \A i \in 1..Len(call.zin) : call.zin[i] = PlusOne
              /\ call.cls = "ParallelNet" =>
                    \A i \in 1..Len(call.zin2) : call.zin2[i] = PlusOne

\* C9 as amended: the same for the continuous FCN input and ParallelNet's
\* branch-1 input; of ParallelNet's branch-2 input, the first column is
\* normalised to -1 and +1, and a later column i, rescaled with lb[0] and
\* ub[0], is normalised to -1 only when lb[i] = lb[0] and to +1 only when
\* ub[i] = ub[0].
C9_EndpointsButBranch2 ==
    RescaledCall =>
        /\ InputAt(net.lb) =>
              /\ \A i \in 1..Len(call.zin) : call.zin[i] = MinusOne
              /\ call.cls = "ParallelNet" =>
                    /\ call.zin2[1] = MinusOne
                    /\ \A i \in 1..Len(call.zin2) :
                          call.zin2[i] = MinusOne <=> net.lb[i] = net.lb[1]
        /\ InputAt(net.ub) =>
              /\ \A i \in 1..Len(call.zin) : call.zin[i] = PlusOne
              /\ call.cls = "ParallelNet" =>
                    /\ call.zin2[1] = PlusOne
                    /\ \A i \in 1..Len(call.zin2) :
                          call.zin2[i] = PlusOne <=> net.ub[i] = net.ub[1]

C9_Witness ==
    /\ RescaledCall
    /\ call.cls = "ParallelNet"
    /\ Len(call.spatial) = 2
    /\ InputAt(net.ub)
    /\ net.ub[2] # net.ub[1]
    /\ call.zin = <<PlusOne, PlusOne, PlusOne>>
    /\ call.zin2[2] # PlusOne

====
